---- MODULE Spec2Model ----
(***************************************************************************)
(* Model of final_admin_app.py (Mumega FRC Platform admin application):    *)
(* the calculate-sfrc request handler with its optional CoherenceLog       *)
(* persistence, the admin statistics handler, and the in-memory session    *)
(* token set.                                                              *)
(*                                                                         *)
(* Floating point scores are modelled in fixed point: one unit is 1/Scale, *)
(* so 0.3 is 3 * Scale \div 10.  A request body is a Python dict, modelled *)
(* as a function whose domain is the set of keys present.                  *)
(***************************************************************************)
EXTENDS Integers, Sequences, FiniteSets, TLC

(* ------------------------------ bounds -------------------------------- *)

\* number of calculate-sfrc requests that may be in flight together
NumReqs == 2
\* number of distinct clock readings
MaxTime == 2

Reqs == 1..NumReqs
Times == 1..MaxTime

(* --------------------------- fixed point ------------------------------ *)

\* units per 1.0 (eight decimal places, two more than round(sfrc, 6) keeps)
Scale == 10^8
\* units per 0.000001
Micro == Scale \div 10^6

T_LOW == 3 * (Scale \div 10)
T_MODERATE == 6 * (Scale \div 10)
T_GOOD == 8 * (Scale \div 10)

(* --------------------------- Python values ---------------------------- *)

PyNone == [t |-> "none"]
PyInt(n) == [t |-> "int", v |-> n]

\* truth value of a Python object: None and 0 are falsy
Truthy(x) == x.t = "int" /\ x.v # 0

EmptyDict == [k \in {} |-> 0]

\* dict.get(key, default)
DictGet(d, key, default) == IF key \in DOMAIN d THEN d[key] ELSE default

DEFAULT_CONTEXT == "api_calculation"

(* ------------------------------ scoring ------------------------------- *)

RECURSIVE SumSeq(_)
SumSeq(s) == IF s = <<>> THEN 0 ELSE Head(s) + SumSeq(Tail(s))

\* resonancelib.core.calculate_s_frc: the aggregation chosen is the
\* arithmetic mean of the levels
calculate_s_frc(levels) == SumSeq(levels) \div Len(levels)

INTERP_LOW == "Low coherence - system fragmented, significant dissonance between consciousness levels"
INTERP_MODERATE == "Moderate coherence - partial integration, room for improvement in alignment"
INTERP_GOOD == "Good coherence - system operating with healthy integration across levels"
INTERP_HIGH == "High coherence - excellent integration, optimal consciousness functioning"

\* Interpret with each boundary given to the lower band
Interpret_Inclusive(sfrc) ==
    IF sfrc <= T_LOW THEN INTERP_LOW
    ELSE IF sfrc <= T_MODERATE THEN INTERP_MODERATE
    ELSE IF sfrc <= T_GOOD THEN INTERP_GOOD
    ELSE INTERP_HIGH

Interpret(sfrc) ==
    IF sfrc < T_LOW THEN INTERP_LOW
    ELSE IF sfrc < T_MODERATE THEN INTERP_MODERATE
    ELSE IF sfrc < T_GOOD THEN INTERP_GOOD
    ELSE INTERP_HIGH

\* Round6 cutting the digits off instead of rounding
Round6_Truncate(sfrc) == (sfrc \div Micro) * Micro

\* round(sfrc, 6): nearest multiple of 0.000001, ties to the even multiple
Round6(sfrc) ==
    LET q == sfrc \div Micro
        rem == sfrc % Micro
    IN  IF 2 * rem < Micro THEN q * Micro
        ELSE IF 2 * rem > Micro THEN (q + 1) * Micro
        ELSE IF q % 2 = 0 THEN q * Micro ELSE (q + 1) * Micro

(* --------------------------- request bodies --------------------------- *)

\* the decimal n/d, for d a divisor of Scale
Dec(n, d) == n * (Scale \div d)
Uniform(v) == [i \in 1..8 |-> v]

\* the vector the admin page posts (testSFRC)
ADMIN_TEST == <<Dec(1, 10), Dec(3, 10), Dec(5, 10), Dec(8, 10),
                Dec(9, 10), Dec(7, 10), Dec(4, 10), Dec(2, 10)>>
ADMIN_TEST_CONTEXT == "admin_test_comprehensive"

\* scores on, next to and just below each threshold, below 0 and above 1
SampleScores ==
    {Dec(-1, 10), 0, Dec(29, 100), T_LOW - 40, T_LOW - 60, T_LOW,
     Dec(59, 100), T_MODERATE - 1, T_MODERATE, Dec(79, 100), T_GOOD - 10,
     T_GOOD, Scale, Dec(12, 10)}

ValidVectors == {Uniform(v) : v \in SampleScores} \cup {ADMIN_TEST}
InvalidVectors == {<<>>, SubSeq(ADMIN_TEST, 1, 7), ADMIN_TEST \o <<Dec(1, 2)>>}

UserIds == {0, 1, 2}

LevelParts(V) == {EmptyDict} \cup {[coherence_levels |-> v] : v \in V}
UserParts == {EmptyDict} \cup {[user_id |-> PyInt(u)] : u \in UserIds}
ContextParts == {EmptyDict, [context |-> ADMIN_TEST_CONTEXT]}

Bodies(V) == {a @@ b @@ c : a \in LevelParts(V), b \in UserParts, c \in ContextParts}

\* request bodies of the sequential specification
AllBodies == Bodies(ValidVectors \cup InvalidVectors)
\* request bodies of the concurrent specification
FewBodies == Bodies({ADMIN_TEST, Uniform(T_LOW - 40)})
\* request bodies of the statistics specification: they name a user
LogBodies ==
    {[coherence_levels |-> v, user_id |-> PyInt(1)] : v \in {ADMIN_TEST, Uniform(T_GOOD)}}

(* ------------------------------- state -------------------------------- *)

VARIABLES
    pc,               \* position of each calculate-sfrc request
    loc,              \* local variables of each calculate-sfrc request
    resp,             \* response of each calculate-sfrc request
    users,            \* ids of the rows of the User table
    logs,             \* rows of the CoherenceLog table, in creation order
    stats,            \* the admin_stats request: position, locals, response
    active_sessions,  \* the module-level set of session tokens
    issued,           \* tokens returned by create_session_token so far
    verified          \* the last verify_session call: token and result

vars == <<pc, loc, resp, users, logs, stats, active_sessions, issued, verified>>

NoLocals == [core_calls |-> 0, persist |-> "none", created |-> {}]
NoResponse == [status_code |-> 0]
NoStats == [pc |-> "idle"]
NoVerify == [called |-> FALSE]

\* no request has arrived; the User table, which this application only
\* reads, holds the rows 0 and 1, and the CoherenceLog table is empty
Init ==
    /\ pc = [r \in Reqs |-> "idle"]
    /\ loc = [r \in Reqs |-> NoLocals]
    /\ resp = [r \in Reqs |-> NoResponse]
    /\ users = {0, 1}
    /\ logs = <<>>
    /\ stats = NoStats
    /\ active_sessions = {}
    /\ issued = {}
    /\ verified = NoVerify

(* ------------------------ calculate_sfrc_api -------------------------- *)

\* ValidLength accepting longer vectors
ValidLength_AtLeast(coherence_levels) == Len(coherence_levels) >= 8

ValidLength(coherence_levels) == Len(coherence_levels) = 8

\* HTTPException(status_code=400, ...)
BadRequest ==
    [status_code |-> 400, detail |-> "coherence_levels must have 8 values (mu0 to mu7)"]

\* OkResponse returning the stored, unrounded score when a row was stored
OkResponse_StoredScore(l, t) ==
    [status_code |-> 200,
     sfrc |-> IF l.persist = "ok" THEN l.sfrc ELSE Round6(l.sfrc),
     coherence_levels |-> l.coherence_levels,
     interpretation |-> l.interpretation,
     context |-> l.context,
     timestamp |-> t]

\* OkResponse that always reports the default context
OkResponse_DefaultContext(l, t) ==
    [status_code |-> 200,
     sfrc |-> Round6(l.sfrc),
     coherence_levels |-> l.coherence_levels,
     interpretation |-> l.interpretation,
     context |-> DEFAULT_CONTEXT,
     timestamp |-> t]

\* the returned document
OkResponse(l, t) ==
    [status_code |-> 200,
     sfrc |-> Round6(l.sfrc),
     coherence_levels |-> l.coherence_levels,
     interpretation |-> l.interpretation,
     context |-> l.context,
     timestamp |-> t]

\* FailureResponse without the except clause: the error reaches the client
FailureResponse_Propagate(l, t) ==
    [status_code |-> 500, detail |-> "Internal Server Error"]

\* except Exception: print(...), then the return statement
FailureResponse(l, t) == OkResponse(l, t)

\* if user_id:
ShouldLog(user_id) == Truthy(user_id)

\* NewLog storing the default context instead of the request's
NewLog_DefaultContext(l) ==
    [user |-> l.user_id.v,
     mu_levels_json |-> l.coherence_levels,
     sfrc_score |-> l.sfrc,
     context |-> DEFAULT_CONTEXT,
     calculation_method |-> "api_standard",
     notes |-> "Calculation via API - " \o l.interpretation]

\* the row CoherenceLog.create stores
NewLog(l) ==
    [user |-> l.user_id.v,
     mu_levels_json |-> l.coherence_levels,
     sfrc_score |-> l.sfrc,
     context |-> l.context,
     calculation_method |-> "api_standard",
     notes |-> "Calculation via API - " \o l.interpretation]

\* the handler from its entry to its first suspension point or its return;
\* requests are numbered in their order of arrival
Receive(r, request) ==
    /\ pc[r] = "idle"
    /\ \A q \in Reqs : q < r => pc[q] # "idle"
    /\ LET coherence_levels == DictGet(request, "coherence_levels", <<>>)
           user_id == DictGet(request, "user_id", PyNone)
           context == DictGet(request, "context", DEFAULT_CONTEXT)
           args == [request |-> request, coherence_levels |-> coherence_levels,
                    user_id |-> user_id, context |-> context]
       IN  IF ~ValidLength(coherence_levels)
           THEN /\ loc' = [loc EXCEPT ![r] = NoLocals @@ args]
                /\ resp' = [resp EXCEPT ![r] = BadRequest]
                /\ pc' = [pc EXCEPT ![r] = "done"]
           ELSE LET sfrc == calculate_s_frc(coherence_levels)
                    l == [core_calls |-> 1,
                          persist |-> IF ShouldLog(user_id) THEN "pending" ELSE "none",
                          sfrc |-> sfrc,
                          interpretation |-> Interpret(sfrc)] @@ NoLocals @@ args
                IN  /\ loc' = [loc EXCEPT ![r] = l]
                    /\ IF ShouldLog(user_id)
                       THEN /\ pc' = [pc EXCEPT ![r] = "get_user"]
                            /\ resp' = resp
                       ELSE /\ pc' = [pc EXCEPT ![r] = "done"]
                            /\ \E t \in Times :
                                 resp' = [resp EXCEPT ![r] = OkResponse(l, t)]
    /\ UNCHANGED <<users, logs, stats, active_sessions, issued, verified>>

\* await User.get(id=user_id) returns the row
UserFound(r) ==
    /\ pc[r] = "get_user"
    /\ loc[r].user_id.v \in users
    /\ pc' = [pc EXCEPT ![r] = "create"]
    /\ UNCHANGED <<loc, resp, users, logs, stats, active_sessions, issued, verified>>

\* await User.get(id=user_id) raises: no such row, or the database fails
UserGetFails(r) ==
    /\ pc[r] = "get_user"
    /\ LET l == [loc[r] EXCEPT !.persist = "lookup_failed"]
       IN  /\ loc' = [loc EXCEPT ![r] = l]
           /\ \E t \in Times : resp' = [resp EXCEPT ![r] = FailureResponse(l, t)]
    /\ pc' = [pc EXCEPT ![r] = "done"]
    /\ UNCHANGED <<users, logs, stats, active_sessions, issued, verified>>

\* await CoherenceLog.create(...) stores the row
LogCreated(r) ==
    /\ pc[r] = "create"
    /\ logs' = Append(logs, NewLog(loc[r]))
    /\ LET l == [loc[r] EXCEPT !.persist = "ok", !.created = @ \cup {Len(logs) + 1}]
       IN  /\ loc' = [loc EXCEPT ![r] = l]
           /\ \E t \in Times : resp' = [resp EXCEPT ![r] = OkResponse(l, t)]
    /\ pc' = [pc EXCEPT ![r] = "done"]
    /\ UNCHANGED <<users, stats, active_sessions, issued, verified>>

\* await CoherenceLog.create(...) raises
LogCreateFails(r) ==
    /\ pc[r] = "create"
    /\ LET l == [loc[r] EXCEPT !.persist = "create_failed"]
       IN  /\ loc' = [loc EXCEPT ![r] = l]
           /\ \E t \in Times : resp' = [resp EXCEPT ![r] = FailureResponse(l, t)]
    /\ pc' = [pc EXCEPT ![r] = "done"]
    /\ UNCHANGED <<users, logs, stats, active_sessions, issued, verified>>

(* ---------------------------- admin_stats ----------------------------- *)

RECURSIVE SumScores(_)
SumScores(rows) ==
    IF rows = <<>> THEN 0 ELSE Head(rows).sfrc_score + SumScores(Tail(rows))

\* Average dividing by the count of the earlier query
Average_ByCount(coherence_logs) ==
    IF stats.response.total_coherence_logs = 0 THEN 0
    ELSE SumScores(coherence_logs) \div stats.response.total_coherence_logs

\* sum(log.sfrc_score for log in coherence_logs) / len(coherence_logs)
Average(coherence_logs) == SumScores(coherence_logs) \div Len(coherence_logs)

\* the counting queries of the stats dict, the last one on CoherenceLog; the
\* ProtocolSession and ProtocolTemplate tables are never written here and
\* their counts are left out
StatsCount ==
    /\ stats.pc = "idle"
    /\ \E t \in Times :
         stats' = [pc |-> "counted",
                   response |-> [users |-> Cardinality(users),
                                 avg_sfrc |-> 0,
                                 total_coherence_logs |-> Len(logs),
                                 timestamp |-> t]]
    /\ UNCHANGED <<pc, loc, resp, users, logs, active_sessions, issued, verified>>

\* await CoherenceLog.all(), the average and the return
StatsFetch ==
    /\ stats.pc = "counted"
    /\ LET coherence_logs == logs
       IN  stats' = [pc |-> "done",
                     coherence_logs |-> coherence_logs,
                     response |-> IF coherence_logs # <<>>
                                  THEN [stats.response EXCEPT
                                          !.avg_sfrc = Average(coherence_logs)]
                                  ELSE stats.response]
    /\ UNCHANGED <<pc, loc, resp, users, logs, active_sessions, issued, verified>>

\* a query raises: except Exception returns the error document
StatsFails ==
    /\ stats.pc \in {"idle", "counted"}
    /\ \E t \in Times :
         stats' = [pc |-> "failed",
                   response |-> [error |-> "query failed", timestamp |-> t]]
    /\ UNCHANGED <<pc, loc, resp, users, logs, active_sessions, issued, verified>>

(* ----------------------------- sessions ------------------------------- *)

Usernames == {"admin", "admin_1", "guest"}

\* f"{username}_{datetime.now().timestamp()}"
Token(username, t) == username \o "_" \o ToString(t)

\* tokens a client may present: every token that can be issued, and forgeries
ProbeTokens == {Token(u, t) : u \in Usernames, t \in Times} \cup {"admin", "admin_0", ""}

\* AddToken keeping only the newest token
AddToken_Replace(sessions, token) == {token}

\* active_sessions.add(token)
AddToken(sessions, token) == sessions \cup {token}

verify_session(token) == token \in active_sessions

create_session_token(username, t) ==
    /\ active_sessions' = AddToken(active_sessions, Token(username, t))
    /\ issued' = issued \cup {Token(username, t)}
    /\ UNCHANGED <<pc, loc, resp, users, logs, stats, verified>>

VerifySession(token) ==
    /\ verified' = [called |-> TRUE, token |-> token, result |-> verify_session(token)]
    /\ UNCHANGED <<pc, loc, resp, users, logs, stats, active_sessions, issued>>

(* -------------------------- specifications ---------------------------- *)

\* concurrent calculate-sfrc requests
Next ==
    \/ \E r \in Reqs, request \in FewBodies : Receive(r, request)
    \/ \E r \in Reqs : UserFound(r)
    \/ \E r \in Reqs : UserGetFails(r)
    \/ \E r \in Reqs : LogCreated(r)
    \/ \E r \in Reqs : LogCreateFails(r)

Spec == Init /\ [][Next]_vars

\* one admin_stats request and concurrent logging calculate-sfrc requests
NextStats ==
    \/ \E r \in Reqs, request \in LogBodies : Receive(r, request)
    \/ \E r \in Reqs : UserFound(r)
    \/ \E r \in Reqs : UserGetFails(r)
    \/ \E r \in Reqs : LogCreated(r)
    \/ \E r \in Reqs : LogCreateFails(r)
    \/ StatsCount
    \/ StatsFetch
    \/ StatsFails

SpecStats == Init /\ [][NextStats]_vars

\* one calculate-sfrc request over the full set of request bodies
NextSeq ==
    \/ \E request \in AllBodies : Receive(1, request)
    \/ UserFound(1)
    \/ UserGetFails(1)
    \/ LogCreated(1)
    \/ LogCreateFails(1)

SpecSeq == Init /\ [][NextSeq]_vars

\* the session token set
NextSession ==
    \/ \E u \in Usernames, t \in Times : create_session_token(u, t)
    \/ \E token \in ProbeTokens : VerifySession(token)

SpecSession == Init /\ [][NextSession]_vars

TypeOK ==
    /\ pc \in [Reqs -> {"idle", "get_user", "create", "done"}]
    /\ users \subseteq UserIds
    /\ Len(logs) <= NumReqs
    /\ stats.pc \in {"idle", "counted", "done", "failed"}
    /\ active_sessions \subseteq ProbeTokens

(* ------------------------------ claims -------------------------------- *)

Answered(r) == pc[r] = "done" /\ resp[r].status_code = 200

\* what the request body of r says, read off the body itself
BodyLevels(r) ==
    IF "coherence_levels" \in DOMAIN loc[r].request
    THEN loc[r].request["coherence_levels"] ELSE <<>>
BodyContext(r) ==
    IF "context" \in DOMAIN loc[r].request
    THEN loc[r].request["context"] ELSE "api_calculation"
BodyHasUser(r) == "user_id" \in DOMAIN loc[r].request

\* the band of a score, threshold by threshold
BandOf(score) ==
    CHOOSE b \in {INTERP_LOW, INTERP_MODERATE, INTERP_GOOD, INTERP_HIGH} :
        /\ (b = INTERP_LOW) = (10 * score < 3 * Scale)
        /\ (b = INTERP_MODERATE) = (3 * Scale <= 10 * score /\ 10 * score < 6 * Scale)
        /\ (b = INTERP_GOOD) = (6 * Scale <= 10 * score /\ 10 * score < 8 * Scale)
        /\ (b = INTERP_HIGH) = (8 * Scale <= 10 * score)

C2_Bands ==
    \A r \in Reqs :
        loc[r].core_calls = 1 =>
            LET s == loc[r].sfrc
                i == loc[r].interpretation
            IN  /\ s = calculate_s_frc(BodyLevels(r))
                /\ (s < T_LOW) => i = INTERP_LOW
                /\ (T_LOW <= s /\ s < T_MODERATE) => i = INTERP_MODERATE
                /\ (T_MODERATE <= s /\ s < T_GOOD) => i = INTERP_GOOD
                /\ (T_GOOD <= s) => i = INTERP_HIGH
                /\ Cardinality({b \in {INTERP_LOW, INTERP_MODERATE, INTERP_GOOD,
                                       INTERP_HIGH} : b = i}) = 1
                /\ Answered(r) => resp[r].interpretation = i

C2_Witness ==
    \E r \in Reqs :
        /\ Answered(r)
        /\ loc[r].sfrc = T_LOW
        /\ resp[r].interpretation = INTERP_MODERATE

\* C7: the response to a valid request has the score, the band, a timestamp
\* and the echoed input: coherence_levels is the request's vector, value by
\* value in the same order, and context is the request's context, or
\* "api_calculation" when the request has none.
C7_Echo ==
    \A r \in Reqs :
        (pc[r] = "done" /\ Len(BodyLevels(r)) = 8) =>
            /\ DOMAIN resp[r] = {"status_code", "sfrc", "coherence_levels",
                                 "interpretation", "context", "timestamp"}
            /\ resp[r].status_code = 200
            /\ Len(resp[r].coherence_levels) = 8
            /\ \A i \in 1..8 : resp[r].coherence_levels[i] = BodyLevels(r)[i]
            /\ resp[r].context = BodyContext(r)
            /\ resp[r].timestamp \in Times
            /\ resp[r].sfrc = Round6(loc[r].sfrc)
            /\ resp[r].interpretation = loc[r].interpretation

C7_Witness ==
    \E r \in Reqs :
        /\ Answered(r)
        /\ BodyLevels(r) = ADMIN_TEST
        /\ "context" \in DOMAIN loc[r].request
        /\ resp[r].context = ADMIN_TEST_CONTEXT
        /\ resp[r].coherence_levels[5] = Dec(9, 10)

\* a score less than 0.0000005 below a threshold
JustBelow(s, threshold) == s < threshold /\ 2 * (threshold - s) < Micro
\* a score exactly 0.0000005 below a threshold
TieBelow(s, threshold) == 2 * (threshold - s) = Micro
Thresholds == {T_LOW, T_MODERATE, T_GOOD}

\* C10 as stated: in every response the interpretation is the band of the
\* returned sfrc field, the computed score rounded to 6 decimal places.
C10_BandOfReturned ==
    \A r \in Reqs :
        Answered(r) => resp[r].interpretation = BandOf(resp[r].sfrc)

\* C10 amended: the interpretation is the band of the computed score; the
\* returned sfrc is that score rounded to 6 places, so its band is the
\* interpretation unless the computed score is less than 0.0000005 below a
\* threshold, where the returned sfrc is the threshold and its band is the
\* next one up.
C10_BandOfComputed ==
    \A r \in Reqs :
        Answered(r) =>
            LET s == loc[r].sfrc
                v == resp[r].sfrc
            IN  /\ resp[r].interpretation = BandOf(s)
                /\ 2 * (v - s) <= Micro /\ 2 * (s - v) <= Micro
                /\ v % Micro = 0
                /\ \A t \in Thresholds :
                     JustBelow(s, t) =>
                        /\ v = t
                        /\ BandOf(v) # resp[r].interpretation
                        /\ BandOf(v) = BandOf(t)
                /\ (\A t \in Thresholds : ~JustBelow(s, t) /\ ~TieBelow(s, t)) =>
                        BandOf(v) = resp[r].interpretation

C10_Witness ==
    \E r \in Reqs :
        /\ Answered(r)
        /\ loc[r].sfrc = T_LOW - 40
        /\ resp[r].sfrc = T_LOW
        /\ resp[r].interpretation = INTERP_LOW

PersistFailed(r) == loc[r].persist \in {"lookup_failed", "create_failed"}

SameAnswer(a, b) ==
    /\ a.sfrc = b.sfrc
    /\ a.coherence_levels = b.coherence_levels
    /\ a.interpretation = b.interpretation
    /\ a.context = b.context

\* C3: when the user lookup or the CoherenceLog creation of a valid request
\* with a user_id fails, the failure is not propagated: the request is
\* answered with status 200, and its sfrc, coherence_levels, interpretation
\* and context are those of a request with the same vector and context
\* whose persistence succeeded or that supplied no user_id.
C3_FailureNotPropagated ==
    \A r \in Reqs :
        (pc[r] = "done" /\ PersistFailed(r)) =>
            /\ resp[r].status_code = 200
            /\ \A q \in Reqs :
                 ( /\ Answered(q)
                   /\ ~PersistFailed(q)
                   /\ BodyLevels(q) = BodyLevels(r)
                   /\ BodyContext(q) = BodyContext(r) ) =>
                        SameAnswer(resp[r], resp[q])

C3_Witness ==
    \E r, q \in Reqs :
        /\ Answered(r) /\ loc[r].persist = "create_failed"
        /\ Answered(q) /\ loc[q].persist = "ok"
        /\ BodyLevels(q) = BodyLevels(r)
        /\ BodyContext(q) = BodyContext(r)
        /\ SameAnswer(resp[r], resp[q])

\* C4: a valid request stores a log row exactly when it supplies a user_id:
\* with a user_id (any value, 0 included) of an existing user and storage
\* succeeding, exactly one row is created, holding the request's vector, the
\* computed score and the request's context; without a user_id it creates
\* no row.
C4_LogIffSupplied ==
    \A r \in Reqs :
        Answered(r) =>
            /\ ( /\ BodyHasUser(r)
                 /\ loc[r].request["user_id"].v \in users
                 /\ ~PersistFailed(r) ) =>
                    /\ Cardinality(loc[r].created) = 1
                    /\ \A i \in loc[r].created :
                         /\ logs[i].mu_levels_json = BodyLevels(r)
                         /\ logs[i].sfrc_score = loc[r].sfrc
                         /\ logs[i].context = BodyContext(r)
            /\ ~BodyHasUser(r) => loc[r].created = {}

\* C5: two requests with identical 8-element coherence_levels get the same
\* sfrc and the same interpretation, whatever else their bodies hold and
\* whatever rows were stored in between.
C5_Deterministic ==
    \A r, q \in Reqs :
        (Answered(r) /\ Answered(q) /\ BodyLevels(r) = BodyLevels(q)) =>
            /\ resp[r].sfrc = resp[q].sfrc
            /\ resp[r].interpretation = resp[q].interpretation

C5_Witness ==
    \E r, q \in Reqs :
        /\ r # q /\ Answered(r) /\ Answered(q)
        /\ BodyLevels(r) = BodyLevels(q)
        /\ loc[r].sfrc # Round6(loc[r].sfrc)
        /\ loc[r].persist = "ok" /\ loc[q].persist = "none"
        /\ BodyContext(r) # BodyContext(q)
        /\ logs # <<>>

\* C6: under every interleaving of concurrent requests, the response of a
\* request is determined by its own body alone, and the row a logging
\* request stores holds its own vector, score, context and user.
C6_OwnPayloadOnly ==
    \A r \in Reqs :
        Answered(r) =>
            LET own == calculate_s_frc(BodyLevels(r))
            IN  /\ resp[r].sfrc = Round6(own)
                /\ resp[r].coherence_levels = BodyLevels(r)
                /\ resp[r].interpretation = BandOf(own)
                /\ resp[r].context = BodyContext(r)
                /\ \A i \in loc[r].created :
                     /\ i \in 1..Len(logs)
                     /\ logs[i].mu_levels_json = BodyLevels(r)
                     /\ logs[i].sfrc_score = own
                     /\ logs[i].context = BodyContext(r)
                     /\ logs[i].user = loc[r].request["user_id"].v
                /\ \A q \in Reqs : q # r => loc[q].created \cap loc[r].created = {}

C6_Witness ==
    \E r, q \in Reqs :
        /\ r < q /\ Answered(r) /\ Answered(q)
        /\ loc[r].created = {2} /\ loc[q].created = {1}
        /\ BodyLevels(r) # BodyLevels(q)
        /\ BodyContext(r) # BodyContext(q)

\* the rows averaged by a finished admin_stats request
Averaged == stats.coherence_logs
IsMeanOf(avg, rows) ==
    /\ avg * Len(rows) <= SumScores(rows)
    /\ SumScores(rows) < (avg + 1) * Len(rows)

\* C9 as stated: in every successful admin_stats response
\* total_coherence_logs is the number of rows avg_sfrc was averaged over,
\* avg_sfrc is their mean, and avg_sfrc is 0 exactly when that number is 0
\* or the mean is 0.
C9_CountMatchesAverage ==
    stats.pc = "done" =>
        /\ stats.response.total_coherence_logs = Len(Averaged)
        /\ Averaged # <<>> => IsMeanOf(stats.response.avg_sfrc, Averaged)
        /\ Averaged = <<>> => stats.response.avg_sfrc = 0

\* C9 amended: avg_sfrc is the mean of the rows read by the later query,
\* and 0 when there are none; total_coherence_logs is the number of rows at
\* the earlier counting query, which is at most the number of rows
\* averaged, the first total_coherence_logs of them being the rows counted.
C9_CountAtMostAveraged ==
    stats.pc = "done" =>
        /\ stats.response.total_coherence_logs <= Len(Averaged)
        /\ Len(Averaged) <= Len(logs)
        /\ Averaged = SubSeq(logs, 1, Len(Averaged))
        /\ Averaged # <<>> => IsMeanOf(stats.response.avg_sfrc, Averaged)
        /\ Averaged = <<>> => stats.response.avg_sfrc = 0
        /\ (stats.response.avg_sfrc = 0) =
              (Averaged = <<>> \/ IsMeanOf(0, Averaged))

C9_Witness ==
    /\ stats.pc = "done"
    /\ stats.response.total_coherence_logs = 1
    /\ Len(Averaged) = 2
    /\ Averaged[1].sfrc_score # Averaged[2].sfrc_score

\* C8: verify_session(t) is true exactly for the tokens an earlier
\* create_session_token returned; the set only grows, so an issued token
\* verifies in every later state, and verify_session leaves the set alone.
C8_SessionsGrowOnly ==
    /\ [](\A t \in ProbeTokens : verify_session(t) = (t \in issued))
    /\ [][active_sessions \subseteq active_sessions']_vars
    /\ [][verified' # verified =>
            /\ active_sessions' = active_sessions
            /\ verified'.result = (verified'.token \in issued)]_vars

C8_Witness ==
    /\ Cardinality(issued) >= 2
    /\ verified.called /\ verified.result
    /\ verified.token = Token("admin_1", 1)
    /\ Token("admin", 2) \in active_sessions

====
